---- MODULE Spec2Model ----
(***************************************************************************)
(* A model of src/main.py: the Lexer class (scan_tokens and the helpers it *)
(* calls) and the calculate function (the recursive-descent evaluator).    *)
(*                                                                         *)
(* A character is a one-character string; the source text and every token  *)
(* value are sequences of characters, so that len(value) is Len(value).    *)
(* Python indexes from 0 and TLA+ sequences from 1: the character at       *)
(* Python index p is source[p + 1].                                        *)
(***************************************************************************)
EXTENDS Integers, Sequences, FiniteSets, TLC

VARIABLES
    source,     \* Lexer.source
    position,   \* Lexer.position
    line,       \* Lexer.line
    column,     \* Lexer.column
    tokens,     \* Lexer.tokens while lexing; the argument of calculate
    starts,     \* history: for each token, the value of position - len(lexeme)
                \* when it was added (the Python index of its first character)
    raised,     \* the exception a Lexer method has raised, "" when none
    calls,      \* history: number of scan_tokens calls that have returned
    mode,       \* "lex" while the Lexer runs, "calc" while calculate runs
    pos,        \* calculate: the nonlocal cursor pos
    stack,      \* calculate: the call stack of the nested functions
    ret,        \* calculate: the value handed from a returning frame to its caller
    outcome,    \* calculate: "running", "returned" or the exception raised
    consumed,   \* history: number of pos_increment calls so far
    defaulted,  \* history: TRUE once primary has reached its final `return 0`
    starved     \* history: TRUE once primary needed a token (the one it reads, or
                \* the RIGHT_PAREN it expects) while pos = len(tokens)

lexvars == <<source, position, line, column, starts, raised, calls>>
calcvars == <<pos, stack, ret, outcome, consumed, defaulted, starved>>
vars == <<source, position, line, column, tokens, starts, raised, calls, mode,
          pos, stack, ret, outcome, consumed, defaulted, starved>>

----------------------------------------------------------------------------
(* Bounds of the model.                                                    *)

\* longest source over the general alphabet
MaxLen == 4
\* longest source over the numeric alphabet
MaxNumLen == 5
\* longest source over the identifier alphabet
MaxIdLen == 4
\* scan_tokens calls made on one Lexer object
MaxCalls == 2
\* longest token sequence over the evaluator's token alphabet
MaxTokens == 4
\* most tokens in a generated well-formed expression
MaxWfTokens == 7

----------------------------------------------------------------------------
(* Characters and their classes (str.isspace, str.isalpha, str.isdigit,    *)
(* str.isalnum on the characters the model uses).                          *)

SpaceChars == {" ", "\n", "\t"}
DigitChars == {"0", "1", "2", "3", "4", "5", "6", "7", "8", "9"}
AlphaChars == {"a", "b", "c", "d", "e", "f", "g", "h", "i", "j", "k", "l", "m",
               "n", "o", "p", "q", "r", "s", "t", "u", "v", "w", "x", "y", "z"}

IsSpace(c) == c \in SpaceChars
IsDigit(c) == c \in DigitChars
IsAlpha(c) == c \in AlphaChars
IsAlnum(c) == IsAlpha(c) \/ IsDigit(c)

\* TokenType.<member>.name as a sequence of characters
TokenTypeName ==
    ("FUNCTION" :> <<"F","U","N","C","T","I","O","N">>)
    @@ ("EXTERN" :> <<"E","X","T","E","R","N">>)
    @@ ("IF" :> <<"I","F">>)
    @@ ("THEN" :> <<"T","H","E","N">>)
    @@ ("ELSE" :> <<"E","L","S","E">>)
    @@ ("FOR" :> <<"F","O","R">>)
    @@ ("IN" :> <<"I","N">>)
    @@ ("INTEGER" :> <<"I","N","T","E","G","E","R">>)
    @@ ("FLOAT" :> <<"F","L","O","A","T">>)
    @@ ("IDENTIFIER" :> <<"I","D","E","N","T","I","F","I","E","R">>)
    @@ ("PLUS" :> <<"P","L","U","S">>)
    @@ ("MINUS" :> <<"M","I","N","U","S">>)
    @@ ("MULTIPLY" :> <<"M","U","L","T","I","P","L","Y">>)
    @@ ("DIVIDE" :> <<"D","I","V","I","D","E">>)
    @@ ("MODULO" :> <<"M","O","D","U","L","O">>)
    @@ ("POWER" :> <<"P","O","W","E","R">>)
    @@ ("LESS" :> <<"L","E","S","S">>)
    @@ ("GREATER" :> <<"G","R","E","A","T","E","R">>)
    @@ ("EQUAL" :> <<"E","Q","U","A","L">>)
    @@ ("NOT_EQUAL" :> <<"N","O","T","_","E","Q","U","A","L">>)
    @@ ("LEFT_PAREN" :> <<"L","E","F","T","_","P","A","R","E","N">>)
    @@ ("RIGHT_PAREN" :> <<"R","I","G","H","T","_","P","A","R","E","N">>)
    @@ ("COMMA" :> <<"C","O","M","M","A">>)
    @@ ("SEMICOLON" :> <<"S","E","M","I","C","O","L","O","N">>)
    @@ ("EOF" :> <<"E","O","F">>)
    @@ ("UNKNOWN" :> <<"U","N","K","N","O","W","N">>)

TokenType == DOMAIN TokenTypeName

\* Lexer.keywords
keywords ==
    [w \in {<<"d","e","f">>, <<"e","x","t","e","r","n">>, <<"i","f">>,
            <<"t","h","e","n">>, <<"e","l","s","e">>, <<"f","o","r">>,
            <<"i","n">>} |->
        CASE w = <<"d","e","f">> -> "FUNCTION"
          [] w = <<"e","x","t","e","r","n">> -> "EXTERN"
          [] w = <<"i","f">> -> "IF"
          [] w = <<"t","h","e","n">> -> "THEN"
          [] w = <<"e","l","s","e">> -> "ELSE"
          [] w = <<"f","o","r">> -> "FOR"
          [] w = <<"i","n">> -> "IN"]

\* Lexer.single_char_tokens
single_char_tokens ==
    [c \in {"+", "-", "*", "/", "%", "^", "<", ">", "=", "(", ")", ",", ";"} |->
        CASE c = "+" -> "PLUS"
          [] c = "-" -> "MINUS"
          [] c = "*" -> "MULTIPLY"
          [] c = "/" -> "DIVIDE"
          [] c = "%" -> "MODULO"
          [] c = "^" -> "POWER"
          [] c = "<" -> "LESS"
          [] c = ">" -> "GREATER"
          [] c = "=" -> "EQUAL"
          [] c = "(" -> "LEFT_PAREN"
          [] c = ")" -> "RIGHT_PAREN"
          [] c = "," -> "COMMA"
          [] c = ";" -> "SEMICOLON"]

----------------------------------------------------------------------------
(* The Lexer.  A lexer state L is the record of the fields the methods     *)
(* change, [position, line, column, tokens, starts], with the exception    *)
(* raised so far in exc ("" when none): a method called after an exception *)
(* has been raised changes nothing, as the exception has ended the call.   *)

\* Token(type, value, line, column)
Token(type, value, ln, col) ==
    [type |-> type, value |-> value, line |-> ln, column |-> col]

\* Lexer.is_at_end
is_at_end(L) == L.position >= Len(source)

\* Lexer.advance: the state after it; the character returned is
\* source[L.position + 1].  source[self.position] raises IndexError at the end
\* of the source (position is never negative).

\* faulty variant of advance: the column is not reset to 1 at a newline
MutAdvanceNoColumnReset(L) ==
    IF L.exc # "" THEN L
    ELSE IF L.position >= Len(source) THEN [L EXCEPT !.exc = "IndexError"]
    ELSE LET char == source[L.position + 1]
         IN  [L EXCEPT !.position = L.position + 1,
                       !.column = L.column + 1,
                       !.line = IF char = "\n" THEN L.line + 1 ELSE L.line]

advance(L) ==
    IF L.exc # "" THEN L
    ELSE IF L.position >= Len(source) THEN [L EXCEPT !.exc = "IndexError"]
    ELSE LET char == source[L.position + 1]
         IN  [L EXCEPT !.position = L.position + 1,
                       !.column = IF char = "\n" THEN 1 ELSE L.column + 1,
                       !.line = IF char = "\n" THEN L.line + 1 ELSE L.line]

\* Lexer.peek: '' at the end of the source
peek(L) == IF is_at_end(L) THEN "" ELSE source[L.position + 1]

\* Lexer.match
match(L, expected) ==
    IF is_at_end(L) \/ source[L.position + 1] # expected
    THEN [ok |-> FALSE, L |-> L]
    ELSE [ok |-> TRUE,
          L |-> [L EXCEPT !.position = L.position + 1, !.column = L.column + 1]]

\* Lexer.add_token
add_token(L, token_type, value) ==
    LET v == IF value = <<>> THEN TokenTypeName[token_type] ELSE value
    IN  IF L.exc # "" THEN L ELSE
        [L EXCEPT !.tokens = Append(L.tokens,
                                    Token(token_type, v, L.line, L.column - Len(v))),
                  !.starts = Append(L.starts,
                                    IF value = <<>> THEN L.position
                                    ELSE L.position - Len(value))]

\* source[start_position:position]
Slice(from, to) == SubSeq(source, from + 1, to)

\* the while loop of the comment branch of scan_token
RECURSIVE CommentLoop(_)
RECURSIVE MutCommentLoopToEnd(_)
\* faulty variant of the comment loop: the comment runs to the end of the
\* source instead of the end of the line
MutCommentLoopToEnd(L) ==
    IF L.exc = "" /\ ~is_at_end(L)
    THEN MutCommentLoopToEnd(advance(L)) ELSE L

CommentLoop(L) ==
    IF L.exc = "" /\ peek(L) # "\n" /\ ~is_at_end(L)
    THEN CommentLoop(advance(L)) ELSE L

\* the while loop of Lexer.identifier
RECURSIVE IdentifierLoop(_)
RECURSIVE MutIdentifierLoopLettersOnly(_)
\* faulty variant of the identifier loop: it goes on over letters only
MutIdentifierLoopLettersOnly(L) ==
    IF L.exc = "" /\ ~is_at_end(L) /\ IsAlpha(peek(L))
    THEN MutIdentifierLoopLettersOnly(advance(L)) ELSE L

IdentifierLoop(L) ==
    IF L.exc = "" /\ ~is_at_end(L) /\ (IsAlnum(peek(L)) \/ peek(L) = "_")
    THEN IdentifierLoop(advance(L)) ELSE L

\* Lexer.identifier
identifier(L) ==
    LET start_position == L.position - 1
        E == IdentifierLoop(L)
        ident == Slice(start_position, E.position)
    IN  IF ident \in DOMAIN keywords
        THEN add_token(E, keywords[ident], ident)
        ELSE add_token(E, "IDENTIFIER", ident)

\* the while loop of Lexer.number; has_decimal travels with the state
RECURSIVE NumberLoop(_, _)
RECURSIVE MutNumberLoopAnyDots(_, _)
\* faulty variant of the number loop: has_decimal does not stop a second '.'
MutNumberLoopAnyDots(L, has_decimal) ==
    IF L.exc = "" /\ ~is_at_end(L) /\ (IsDigit(peek(L)) \/ peek(L) = ".")
    THEN MutNumberLoopAnyDots(advance(L), has_decimal \/ peek(L) = ".")
    ELSE [L |-> L, has_decimal |-> has_decimal]

NumberLoop(L, has_decimal) ==
    IF L.exc = "" /\ ~is_at_end(L)
       /\ (IsDigit(peek(L)) \/ (peek(L) = "." /\ ~has_decimal))
    THEN NumberLoop(advance(L), has_decimal \/ peek(L) = ".")
    ELSE [L |-> L, has_decimal |-> has_decimal]

\* Lexer.number
number(L, first_char) ==
    LET start_position == L.position - 1
        R == NumberLoop(L, first_char = ".")
        number_str == Slice(start_position, R.L.position)
    IN  IF R.has_decimal
        THEN add_token(R.L, "FLOAT", number_str)
        ELSE add_token(R.L, "INTEGER", number_str)

\* Lexer.scan_token

\* faulty variant of scan_token: a character that matches no rule is
\* dropped without a token
MutScanTokenSkipsUnknown(L) ==
    LET A == advance(L)
        char == source[L.position + 1]
    IN  IF A.exc # "" THEN A
        ELSE IF IsSpace(char) THEN A
        ELSE IF char = "#" THEN CommentLoop(A)
        ELSE IF char \in DOMAIN single_char_tokens
             THEN add_token(A, single_char_tokens[char], <<char>>)
        ELSE IF IsAlpha(char) \/ char = "_" THEN identifier(A)
        ELSE IF IsDigit(char) \/ (char = "." /\ IsDigit(peek(A)))
             THEN number(A, char)
        ELSE A

scan_token(L) ==
    LET A == advance(L)
        char == source[L.position + 1]
    IN  IF A.exc # "" THEN A
        ELSE IF IsSpace(char) THEN A
        ELSE IF char = "#" THEN CommentLoop(A)
        ELSE IF char \in DOMAIN single_char_tokens
             THEN IF char = "!" /\ match(A, "=").ok
                  THEN add_token(match(A, "=").L, "NOT_EQUAL", <<"!", "=">>)
                  ELSE add_token(A, single_char_tokens[char], <<char>>)
        ELSE IF IsAlpha(char) \/ char = "_" THEN identifier(A)
        ELSE IF IsDigit(char) \/ (char = "." /\ IsDigit(peek(A)))
             THEN number(A, char)
        ELSE add_token(A, "UNKNOWN", <<char>>)

\* the Lexer's fields as a lexer state
Lexer == [position |-> position, line |-> line, column |-> column,
          tokens |-> tokens, starts |-> starts, exc |-> raised]

SetLexer(L) ==
    /\ position' = L.position
    /\ line' = L.line
    /\ column' = L.column
    /\ tokens' = L.tokens
    /\ starts' = L.starts
    /\ raised' = L.exc

\* one iteration of the while loop of scan_tokens
ScanToken ==
    /\ mode = "lex"
    /\ calls < MaxCalls
    /\ raised = ""
    /\ ~is_at_end(Lexer)
    /\ SetLexer(scan_token(Lexer))
    /\ UNCHANGED <<source, calls, mode>>
    /\ UNCHANGED calcvars

\* the end of scan_tokens: the loop condition fails, EOF is added and
\* self.tokens is returned.  A later call on the same object starts here too.
ScanEOF ==
    /\ mode = "lex"
    /\ calls < MaxCalls
    /\ raised = ""
    /\ is_at_end(Lexer)
    /\ SetLexer(add_token(Lexer, "EOF", <<>>))
    /\ calls' = calls + 1
    /\ UNCHANGED <<source, mode>>
    /\ UNCHANGED calcvars

----------------------------------------------------------------------------
(* The sources the Lexer is run on.                                        *)

RECURSIVE SeqsUpTo(_, _)
SeqsUpTo(S, n) ==
    IF n = 0 THEN {<<>>}
    ELSE LET shorter == SeqsUpTo(S, n - 1)
         IN  shorter \cup {Append(s, c) : s \in shorter, c \in S}

Alphabet == {" ", "\n", "#", "+", "n", "1", ".", "!"}
NumAlphabet == {"1", "2", ".", " "}
IdAlphabet == {"i", "n", "f", "_", "1", " "}
Affixes == {<<>>, <<" ">>, <<"_">>, <<"x">>, <<"1">>, <<"e","v","e","r">>,
            <<"(">>, <<"_","x">>, <<"i","n","e">>}
KeywordSources == {p \o k \o s : p \in Affixes, k \in DOMAIN keywords, s \in Affixes}

\* sample texts
ExampleSources ==
    {<<"f", "o", "r", " ", "f", "o", "r", "e", "v", "e", "r", " ", "i", "n", "_", "x">>,
     <<"f", "o", "r", "e", "v", "e", "r">>,
     <<"d", "e", "f", "i", "n", "e">>,
     <<"i", "n", "_", "x">>,
     <<"3">>,
     <<"3", ".", "1", "4">>,
     <<"3", ".", "1", "4", ".", "5">>,
     <<"1", " ", "#", " ", "c", "o", "m", "m", "e", "n", "t", "\n", "2">>,
     <<"a", "\n", " ", "b", "!", "=", "1">>}

Sources ==
    SeqsUpTo(Alphabet, MaxLen) \cup SeqsUpTo(NumAlphabet, MaxNumLen)
        \cup SeqsUpTo(IdAlphabet, MaxIdLen) \cup KeywordSources
        \cup ExampleSources


----------------------------------------------------------------------------
(* The numbers of calculate.  Python integers are unbounded and Python     *)
(* floats are not integers: a value is [t, v, exc], an integer of absolute *)
(* value up to MaxAbs (t = "int", its value in v), an integer outside that *)
(* range or computed from one (t = "big"), a float (t = "float"), or a     *)
(* raised exception (t = "exc", its name in exc).  An operation on big or  *)
(* float operands yields every kind of outcome Python can produce for some *)
(* operands of those kinds.                                                *)

\* largest absolute value of an integer the model computes with
MaxAbs == 40000

BigVal == [t |-> "big", v |-> 0, exc |-> ""]
FloatVal == [t |-> "float", v |-> 0, exc |-> ""]
Exc(name) == [t |-> "exc", v |-> 0, exc |-> name]
IntVal(n) == IF n > MaxAbs \/ n < -MaxAbs THEN BigVal ELSE [t |-> "int", v |-> n, exc |-> ""]

\* int // for a nonzero divisor and int %: Python rounds the quotient down
\* and the remainder has the sign of the divisor
PyMod(a, b) ==
    IF b > 0 THEN a % b ELSE -((-a) % (-b))

\* a ** b for integers a and b >= 0
RECURSIVE PowAcc(_, _, _)
PowAcc(a, b, acc) ==
    IF b = 0 THEN IntVal(acc)
    ELSE IF acc * a > MaxAbs \/ acc * a < -MaxAbs THEN BigVal
    ELSE PowAcc(a, b - 1, acc * a)

PyPow(a, b) ==
    IF b < 0 THEN (IF a = 0 THEN Exc("ZeroDivisionError") ELSE FloatVal)
    ELSE IF a = 0 THEN IntVal(IF b = 0 THEN 1 ELSE 0)
    ELSE IF a = 1 THEN IntVal(1)
    ELSE IF a = -1 THEN IntVal(IF b % 2 = 0 THEN 1 ELSE -1)
    ELSE PowAcc(a, b, 1)

\* left op right for two integers in range
IntOp(op, a, b) ==
    CASE op = "PLUS" -> IntVal(a + b)
      [] op = "MINUS" -> IntVal(a - b)
      [] op = "MULTIPLY" -> IntVal(a * b)
      [] op = "DIVIDE" -> IF b = 0 THEN Exc("ZeroDivisionError") ELSE FloatVal
      [] op = "MODULO" -> IF b = 0 THEN Exc("ZeroDivisionError") ELSE IntVal(PyMod(a, b))
      [] op = "POWER" -> PyPow(a, b)

\* the outcomes of left op right (+=, -=, *=, /=, %=, **)
BinOp(op, x, y) ==
    IF x.t = "int" /\ y.t = "int" THEN {IntOp(op, x.v, y.v)}
    ELSE LET anyFloat == x.t = "float" \/ y.t = "float"
             anyBig == x.t = "big" \/ y.t = "big"
         IN  (IF anyFloat \/ op \in {"DIVIDE", "POWER"} THEN {FloatVal} ELSE {})
             \cup (IF ~anyFloat /\ op # "DIVIDE" THEN {BigVal} ELSE {})
             \cup (IF op \in {"DIVIDE", "MODULO", "POWER"} /\ ~(y.t = "int" /\ y.v # 0 /\ op # "POWER")
                   THEN {Exc("ZeroDivisionError")} ELSE {})
             \cup (IF (anyFloat /\ anyBig) \/ op \in {"DIVIDE", "POWER"}
                   THEN {Exc("OverflowError")} ELSE {})

\* the outcomes of math.sin(arg) and math.cos(arg)
MathTrig(arg) ==
    CASE arg.t = "int" -> {FloatVal}
      [] arg.t = "big" -> {FloatVal, Exc("OverflowError")}
      [] arg.t = "float" -> {FloatVal, Exc("ValueError")}

\* the value of a decimal digit
DigitValue(c) ==
    CASE c = "0" -> 0 [] c = "1" -> 1 [] c = "2" -> 2 [] c = "3" -> 3 [] c = "4" -> 4
      [] c = "5" -> 5 [] c = "6" -> 6 [] c = "7" -> 7 [] c = "8" -> 8 [] c = "9" -> 9

\* int(token.value) for a value made of digits
RECURSIVE ParseInt(_)
ParseInt(value) ==
    IF Len(value) = 0 THEN 0
    ELSE 10 * ParseInt(SubSeq(value, 1, Len(value) - 1)) + DigitValue(value[Len(value)])

----------------------------------------------------------------------------
(* calculate.  A state C of the call is the record of what the nested      *)
(* functions change: [pos, stack, ret, outcome, consumed, defaulted,       *)
(* starved].  The stack holds one frame per active call of expression,     *)
(* term, factor, power or primary: the function, where it is (pc), and its *)
(* locals left, op and token (as the name of the built-in).  An action is  *)
(* the code a function runs between two calls or returns.                  *)

Frame(fn) == [fn |-> fn, pc |-> "start", left |-> IntVal(0), op |-> "", name |-> <<>>]

Top(C) == C.stack[Len(C.stack)]

\* the running frame with its locals changed
SetTop(C, f) == [C EXCEPT !.stack[Len(C.stack)] = f]

\* a call of one of the nested functions
Call(C, fn) == [C EXCEPT !.stack = Append(C.stack, Frame(fn))]

\* return value: the frame is left; the return of expression() at line 332
\* ends calculate
Return(C, value) ==
    [C EXCEPT !.stack = SubSeq(C.stack, 1, Len(C.stack) - 1),
              !.ret = value,
              !.outcome = IF Len(C.stack) = 1 THEN "returned" ELSE C.outcome]

\* an exception: no function catches it, so it ends calculate
Raise(C, name) == [C EXCEPT !.stack = <<>>, !.outcome = name]

\* calculate.pos_increment
pos_increment(C) == [C EXCEPT !.pos = C.pos + 1, !.consumed = C.consumed + 1]

\* pos < len(tokens) and tokens[pos].type in types
AtType(C, types) == C.pos < Len(tokens) /\ tokens[C.pos + 1].type \in types

\* the while loop of term from its test, with left: on an operator consume it
\* and call factor, otherwise return left
term_loop(C, left) ==
    IF AtType(C, {"PLUS", "MINUS"})
    THEN LET op == tokens[C.pos + 1]
             C1 == pos_increment(C)
         IN  Call(SetTop(C1, [Top(C1) EXCEPT !.pc = "right", !.left = left, !.op = op.type]),
                  "factor")
    ELSE Return(C, left)

\* the while loop of factor from its test
factor_loop(C, left) ==
    IF AtType(C, {"MULTIPLY", "DIVIDE", "MODULO"})
    THEN LET op == tokens[C.pos + 1]
             C1 == pos_increment(C)
         IN  Call(SetTop(C1, [Top(C1) EXCEPT !.pc = "right", !.left = left, !.op = op.type]),
                  "power")
    ELSE Return(C, left)

\* power after left = primary(): on POWER consume it and call power

\* faulty variant of power: the right operand is a primary, so that ^ groups
\* to the left
MutPowerLeftAssociative(C, left) ==
    IF AtType(C, {"POWER"})
    THEN LET C1 == pos_increment(C)
         IN  Call(SetTop(C1, [Top(C1) EXCEPT !.pc = "right", !.left = left, !.op = "POWER"]),
                  "primary")
    ELSE Return(C, left)

power_rest(C, left) ==
    IF AtType(C, {"POWER"})
    THEN LET C1 == pos_increment(C)
         IN  Call(SetTop(C1, [Top(C1) EXCEPT !.pc = "right", !.left = left, !.op = "POWER"]),
                  "power")
    ELSE Return(C, left)

\* the end of primary: return 0
primary_default(C) == Return([C EXCEPT !.defaulted = TRUE], IntVal(0))

\* primary up to its first call or return
primary_start(C) ==
    IF C.pos >= Len(tokens)
    THEN Raise([C EXCEPT !.starved = TRUE], "IndexError")
    ELSE LET token == tokens[C.pos + 1]
             C1 == pos_increment(C)
         IN  IF token.type = "INTEGER" THEN Return(C1, IntVal(ParseInt(token.value)))
             ELSE IF token.type = "FLOAT" THEN Return(C1, FloatVal)
             ELSE IF token.type = "IDENTIFIER"
                  THEN IF token.value \in {<<"s","i","n">>, <<"c","o","s">>}
                          /\ AtType(C1, {"LEFT_PAREN"})
                       THEN LET C2 == pos_increment(C1)
                            IN  Call(SetTop(C2, [Top(C2) EXCEPT !.pc = "arg",
                                                                !.name = token.value]),
                                     "expression")
                       ELSE primary_default(C1)
             ELSE IF token.type = "LEFT_PAREN"
                  THEN Call(SetTop(C1, [Top(C1) EXCEPT !.pc = "paren"]), "expression")
             ELSE primary_default(C1)

\* primary after arg = expression() or result = expression(): the states
\* it can go to
primary_close(C) ==
    IF AtType(C, {"RIGHT_PAREN"})
    THEN LET C1 == pos_increment(C)
         IN  IF Top(C).pc = "paren" THEN {Return(C1, C.ret)}
             ELSE {IF r.t = "exc" THEN Raise(C1, r.exc) ELSE Return(C1, r) :
                      r \in MathTrig(C.ret)}
    ELSE {primary_default([C EXCEPT !.starved = C.starved \/ C.pos >= Len(tokens)])}

\* calculate's variables as a state of the call
Calc == [pos |-> pos, stack |-> stack, ret |-> ret, outcome |-> outcome,
         consumed |-> consumed, defaulted |-> defaulted, starved |-> starved]

SetCalc(C) ==
    /\ pos' = C.pos
    /\ stack' = C.stack
    /\ ret' = C.ret
    /\ outcome' = C.outcome
    /\ consumed' = C.consumed
    /\ defaulted' = C.defaulted
    /\ starved' = C.starved

\* the function fn is running at pc
Running(fn, pc) ==
    /\ mode = "calc"
    /\ outcome = "running"
    /\ stack # <<>>
    /\ Top(Calc).fn = fn
    /\ Top(Calc).pc = pc

\* the outcomes of left op= right with right = ret, the value just returned
Combined == BinOp(Top(Calc).op, Top(Calc).left, ret)

\* expression: return term()
ExpressionCall ==
    /\ Running("expression", "start")
    /\ SetCalc(Call(SetTop(Calc, [Top(Calc) EXCEPT !.pc = "ret"]), "term"))
    /\ UNCHANGED <<tokens, mode>> /\ UNCHANGED lexvars

ExpressionReturn ==
    /\ Running("expression", "ret")
    /\ SetCalc(Return(Calc, ret))
    /\ UNCHANGED <<tokens, mode>> /\ UNCHANGED lexvars

\* term: left = factor()
TermCall ==
    /\ Running("term", "start")
    /\ SetCalc(Call(SetTop(Calc, [Top(Calc) EXCEPT !.pc = "left"]), "factor"))
    /\ UNCHANGED <<tokens, mode>> /\ UNCHANGED lexvars

TermLeft ==
    /\ Running("term", "left")
    /\ SetCalc(term_loop(Calc, ret))
    /\ UNCHANGED <<tokens, mode>> /\ UNCHANGED lexvars

TermRight ==
    /\ Running("term", "right")
    /\ \E r \in Combined :
          SetCalc(IF r.t = "exc" THEN Raise(Calc, r.exc) ELSE term_loop(Calc, r))
    /\ UNCHANGED <<tokens, mode>> /\ UNCHANGED lexvars

\* factor: left = power()
FactorCall ==
    /\ Running("factor", "start")
    /\ SetCalc(Call(SetTop(Calc, [Top(Calc) EXCEPT !.pc = "left"]), "power"))
    /\ UNCHANGED <<tokens, mode>> /\ UNCHANGED lexvars

FactorLeft ==
    /\ Running("factor", "left")
    /\ SetCalc(factor_loop(Calc, ret))
    /\ UNCHANGED <<tokens, mode>> /\ UNCHANGED lexvars

FactorRight ==
    /\ Running("factor", "right")
    /\ \E r \in Combined :
          SetCalc(IF r.t = "exc" THEN Raise(Calc, r.exc) ELSE factor_loop(Calc, r))
    /\ UNCHANGED <<tokens, mode>> /\ UNCHANGED lexvars

\* power: left = primary()
PowerCall ==
    /\ Running("power", "start")
    /\ SetCalc(Call(SetTop(Calc, [Top(Calc) EXCEPT !.pc = "left"]), "primary"))
    /\ UNCHANGED <<tokens, mode>> /\ UNCHANGED lexvars

PowerLeft ==
    /\ Running("power", "left")
    /\ SetCalc(power_rest(Calc, ret))
    /\ UNCHANGED <<tokens, mode>> /\ UNCHANGED lexvars

\* power: return left ** right
PowerRight ==
    /\ Running("power", "right")
    /\ \E r \in Combined :
          SetCalc(IF r.t = "exc" THEN Raise(Calc, r.exc) ELSE Return(Calc, r))
    /\ UNCHANGED <<tokens, mode>> /\ UNCHANGED lexvars

PrimaryStart ==
    /\ Running("primary", "start")
    /\ SetCalc(primary_start(Calc))
    /\ UNCHANGED <<tokens, mode>> /\ UNCHANGED lexvars

PrimaryClose ==
    /\ \/ Running("primary", "arg")
       \/ Running("primary", "paren")
    /\ \E C \in primary_close(Calc) : SetCalc(C)
    /\ UNCHANGED <<tokens, mode>> /\ UNCHANGED lexvars

\* the calculate variables while the Lexer runs
CalcIdle ==
    /\ pos = 0
    /\ stack = <<>>
    /\ ret = IntVal(0)
    /\ outcome = "idle"
    /\ consumed = 0
    /\ defaulted = FALSE
    /\ starved = FALSE

\* Lexer.__init__
Init ==
    /\ source \in Sources
    /\ position = 0
    /\ line = 1
    /\ column = 1
    /\ tokens = <<>>
    /\ starts = <<>>
    /\ raised = ""
    /\ calls = 0
    /\ mode = "lex"
    /\ CalcIdle

Next == ScanToken \/ ScanEOF

Spec == Init /\ [][Next]_vars

----------------------------------------------------------------------------
(* The token sequences calculate is run on.                                *)

\* a token as calculate reads it (type and value; it ignores the position)
Tok(type, value) == Token(type, value, 1, 1)

IntTok(c) == Tok("INTEGER", <<c>>)
OpTok(c) == Tok(single_char_tokens[c], <<c>>)
Ident(w) == Tok("IDENTIFIER", w)

CalcAlphabet ==
    {IntTok("2"), OpTok("+"), OpTok("^"), OpTok("("), OpTok(")"),
     Ident(<<"s","i","n">>), Ident(<<"f","o","o">>), Tok("IF", <<"i","f">>)}

WfLiterals == {IntTok("2"), IntTok("3")}
WfOperators == {OpTok("+"), OpTok("-"), OpTok("*"), OpTok("%"), OpTok("^")}

\* the well-formed expressions of exactly n tokens: a literal, an
\* expression in parentheses, or two expressions around a binary operator
RECURSIVE WfExprs(_)
WfExprs(n) ==
    IF n = 1 THEN {<<l>> : l \in WfLiterals}
    ELSE IF n < 3 THEN {}
    ELSE {<<OpTok("(")>> \o e \o <<OpTok(")")>> : e \in WfExprs(n - 2)}
         \cup UNION {{a \o <<op>> \o b : a \in WfExprs(k),
                                         op \in WfOperators,
                                         b \in WfExprs(n - 1 - k)} :
                     k \in 1..(n - 2)}

WfInputs == UNION {WfExprs(n) : n \in 1..MaxWfTokens}

\* sample expressions: 2 ^ 3 ^ 2, (2 + 3) * 4, 2 + 3 * 4, 10 - 4 - 3,
\* 2 + 3 * 4 - 5 / 2, sin(0) + cos(0), 2 +, 2 / 0, foo(1), 2 % 0
Ex_2pow3pow2 == <<IntTok("2"), OpTok("^"), IntTok("3"), OpTok("^"), IntTok("2")>>
Ex_paren2plus3times4 ==
    <<OpTok("("), IntTok("2"), OpTok("+"), IntTok("3"), OpTok(")"), OpTok("*"), IntTok("4")>>
Ex_2plus3times4 == <<IntTok("2"), OpTok("+"), IntTok("3"), OpTok("*"), IntTok("4")>>
Ex_10minus4minus3 ==
    <<Tok("INTEGER", <<"1", "0">>), OpTok("-"), IntTok("4"), OpTok("-"), IntTok("3")>>

WfExamples ==
    {Ex_2pow3pow2, Ex_paren2plus3times4, Ex_2plus3times4, Ex_10minus4minus3}

CalcExamples ==
    WfExamples \cup
    {<<IntTok("2"), OpTok("+"), IntTok("3"), OpTok("*"), IntTok("4"), OpTok("-"), IntTok("5"), OpTok("/"), IntTok("2")>>,
     <<Ident(<<"s","i","n">>), OpTok("("), IntTok("0"), OpTok(")"), OpTok("+"),
       Ident(<<"c","o","s">>), OpTok("("), IntTok("0"), OpTok(")")>>,
     <<IntTok("2"), OpTok("+")>>,
     <<IntTok("2"), OpTok("/"), IntTok("0")>>,
     <<IntTok("2"), OpTok("%"), IntTok("0")>>,
     <<Ident(<<"f","o","o">>), OpTok("("), IntTok("1"), OpTok(")")>>,
     <<Tok("FLOAT", <<"3", ".", "1", "4">>), OpTok("*"), IntTok("2")>>}

CalcInputs == SeqsUpTo(CalcAlphabet, MaxTokens) \cup WfInputs \cup CalcExamples

\* calculate(tokens) up to result = expression() at line 332
CalcInit ==
    /\ tokens \in CalcInputs
    /\ mode = "calc"
    /\ pos = 0
    /\ stack = <<Frame("expression")>>
    /\ ret = IntVal(0)
    /\ outcome = "running"
    /\ consumed = 0
    /\ defaulted = FALSE
    /\ starved = FALSE
    /\ source = <<>>
    /\ position = 0
    /\ line = 1
    /\ column = 1
    /\ starts = <<>>
    /\ raised = ""
    /\ calls = 0

CalcNext ==
    \/ ExpressionCall \/ ExpressionReturn
    \/ TermCall \/ TermLeft \/ TermRight
    \/ FactorCall \/ FactorLeft \/ FactorRight
    \/ PowerCall \/ PowerLeft \/ PowerRight
    \/ PrimaryStart \/ PrimaryClose

CalcSpec == CalcInit /\ [][CalcNext]_vars

----------------------------------------------------------------------------
(* Properties of the Lexer.                                                *)

\* the first scan_tokens call on the Lexer has returned and no later one has
FirstReturn == mode = "lex" /\ calls = 1

\* a scan_tokens call has returned
Returned == mode = "lex" /\ calls >= 1

RECURSIVE ConcatValues(_)
ConcatValues(toks) ==
    IF toks = <<>> THEN <<>> ELSE Head(toks).value \o ConcatValues(Tail(toks))

\* the source from 1-based index i on, without whitespace and comments; a
\* comment is a '#' and the characters up to the next newline or the end
RECURSIVE StripFrom(_, _)
StripFrom(i, inComment) ==
    IF i > Len(source) THEN <<>>
    ELSE IF inComment
         THEN StripFrom(i + 1, source[i] # "\n")
    ELSE IF source[i] = "#" THEN StripFrom(i + 1, TRUE)
    ELSE IF IsSpace(source[i]) THEN StripFrom(i + 1, FALSE)
    ELSE <<source[i]>> \o StripFrom(i + 1, FALSE)

\* no scanning rule applies to the character at 1-based index i
MatchesNoRule(i) ==
    LET c == source[i]
    IN  /\ ~IsSpace(c)
        /\ c # "#"
        /\ c \notin {"+", "-", "*", "/", "%", "^", "<", ">", "=", "(", ")", ",", ";"}
        /\ ~IsAlpha(c) /\ c # "_"
        /\ ~IsDigit(c)
        /\ ~(c = "." /\ i < Len(source) /\ IsDigit(source[i + 1]))

\* C1: on a fresh Lexer scan_tokens terminates without raising: every
\* scan_token step moves position forward by at least one character and not
\* past the end, a character that matches no rule adds exactly one UNKNOWN
\* token whose value is that character, no step raises (so the loop ends
\* after at most len(source) steps and the call returns), and the last
\* token of the returned sequence is EOF.
C1_ScanTokensTotal ==
    /\ [][ScanToken =>
            /\ position' > position
            /\ position' <= Len(source)
            /\ MatchesNoRule(position + 1) =>
                 /\ Len(tokens') = Len(tokens) + 1
                 /\ tokens'[Len(tokens')].type = "UNKNOWN"
                 /\ tokens'[Len(tokens')].value = <<source[position + 1]>>
                 /\ position' = position + 1]_vars
    /\ [](FirstReturn => tokens[Len(tokens)].type = "EOF")
    /\ [](mode = "lex" => raised = "")

\* a returned sequence that holds an UNKNOWN token for '!' before its EOF
C1_Witness ==
    /\ FirstReturn
    /\ Len(tokens) >= 2
    /\ tokens[Len(tokens)].type = "EOF"
    /\ \E i \in DOMAIN tokens : tokens[i].type = "UNKNOWN" /\ tokens[i].value = <<"!">>

\* C2: the values of the tokens returned by scan_tokens, without the final
\* EOF, concatenated in order are the source with whitespace and comments
\* removed.
C2_LexemesReconstructSource ==
    FirstReturn =>
        ConcatValues(SubSeq(tokens, 1, Len(tokens) - 1)) = StripFrom(1, FALSE)

\* a comment closed by a newline, with a token emitted for the text after it
C2_Witness ==
    /\ FirstReturn
    /\ \E i, j \in DOMAIN source :
          /\ i < j
          /\ source[i] = "#"
          /\ source[j] = "\n"
          /\ \E k \in DOMAIN tokens : tokens[k].type # "EOF" /\ starts[k] >= j
          /\ \E k \in DOMAIN tokens : starts[k] < i - 1

\* C3: tokenizing the empty string returns exactly one token, of kind EOF,
\* at line 1, column 1.
C3_EmptySourceEOF ==
    (FirstReturn /\ source = <<>>) =>
        /\ Len(tokens) = 1
        /\ tokens[1].type = "EOF"
        /\ tokens[1].line = 1
        /\ tokens[1].column = 1

\* number of newline characters among the first n characters of the source
RECURSIVE NewlinesBefore(_)
NewlinesBefore(n) ==
    IF n = 0 THEN 0
    ELSE NewlinesBefore(n - 1) + (IF source[n] = "\n" THEN 1 ELSE 0)

\* 1-based offset within its line of the character at Python index p
RECURSIVE ColumnOf(_)
ColumnOf(p) ==
    IF p = 0 \/ source[p] = "\n" THEN 1 ELSE ColumnOf(p - 1) + 1

\* C8: every token other than the synthetic EOF carries the line and the
\* column of the first character of its lexeme.
C8_TokenPositions ==
    mode = "lex" =>
        \A i \in DOMAIN tokens :
            tokens[i].type # "EOF" =>
                /\ starts[i] >= 0
                /\ Slice(starts[i], starts[i] + Len(tokens[i].value)) = tokens[i].value
                /\ tokens[i].line = 1 + NewlinesBefore(starts[i])
                /\ tokens[i].column = ColumnOf(starts[i])

\* a token on the second line that is not the first character of that line
C8_Witness ==
    /\ mode = "lex"
    /\ \E i \in DOMAIN tokens :
          /\ tokens[i].type # "EOF"
          /\ tokens[i].line = 2
          /\ tokens[i].column = 2

\* the keyword table as the claim states it
KeywordKinds == {"FUNCTION", "EXTERN", "IF", "THEN", "ELSE", "FOR", "IN"}

KindOfWord(w) ==
    CASE w = <<"d","e","f">> -> "FUNCTION"
      [] w = <<"e","x","t","e","r","n">> -> "EXTERN"
      [] w = <<"i","f">> -> "IF"
      [] w = <<"t","h","e","n">> -> "THEN"
      [] w = <<"e","l","s","e">> -> "ELSE"
      [] w = <<"f","o","r">> -> "FOR"
      [] w = <<"i","n">> -> "IN"
      [] OTHER -> "IDENTIFIER"

IsWordChar(c) == IsAlnum(c) \/ c = "_"

\* C9: an identifier or keyword token is the maximal run of alphanumeric or
\* underscore characters from a letter or underscore, every token that
\* starts at a letter or underscore is such a token, and its kind is the
\* keyword kind exactly when the whole lexeme is a keyword.
C9_IdentifiersAndKeywords ==
    mode = "lex" =>
        \A i \in DOMAIN tokens :
            LET t == tokens[i]
                first == source[starts[i] + 1]
                after == starts[i] + Len(t.value) + 1
            IN  /\ t.type \in KeywordKinds \cup {"IDENTIFIER"} =>
                    /\ IsAlpha(first) \/ first = "_"
                    /\ t.value = Slice(starts[i], starts[i] + Len(t.value))
                    /\ \A k \in DOMAIN t.value : IsWordChar(t.value[k])
                    /\ after <= Len(source) => ~IsWordChar(source[after])
                    /\ t.type = KindOfWord(t.value)
                /\ (t.type # "EOF" /\ (IsAlpha(first) \/ first = "_")) =>
                    t.type \in KeywordKinds \cup {"IDENTIFIER"}

\* a keyword token followed by an IDENTIFIER token whose lexeme begins with
\* that keyword and goes on
C9_Witness ==
    /\ mode = "lex"
    /\ \E i \in DOMAIN tokens :
          /\ i + 1 \in DOMAIN tokens
          /\ tokens[i].type = "FOR"
          /\ tokens[i + 1].type = "IDENTIFIER"
          /\ tokens[i + 1].value = <<"f","o","r","e","v","e","r">>

CountDots(v) == Cardinality({k \in DOMAIN v : v[k] = "."})

\* C7: a numeric token starts at a digit or at a '.' followed by a digit,
\* holds only digits and at most one '.', ends where the next character is
\* neither a digit nor a first '.', and is FLOAT exactly when it holds a
\* '.'; every token that starts that way is a numeric token; "3.14.5" gives
\* FLOAT "3.14", FLOAT ".5".
C7_NumericLiterals ==
    mode = "lex" =>
        /\ \A i \in DOMAIN tokens :
            LET t == tokens[i]
                first == source[starts[i] + 1]
                second == IF starts[i] + 2 <= Len(source)
                          THEN source[starts[i] + 2] ELSE ""
                after == starts[i] + Len(t.value) + 1
                numeric == IsDigit(first) \/ (first = "." /\ IsDigit(second))
            IN  /\ t.type \in {"INTEGER", "FLOAT"} =>
                    /\ numeric
                    /\ t.value = Slice(starts[i], starts[i] + Len(t.value))
                    /\ \A k \in DOMAIN t.value : IsDigit(t.value[k]) \/ t.value[k] = "."
                    /\ CountDots(t.value) <= 1
                    /\ after <= Len(source) =>
                          /\ ~IsDigit(source[after])
                          /\ source[after] = "." => CountDots(t.value) = 1
                    /\ t.type = "FLOAT" <=> CountDots(t.value) = 1
                /\ (t.type # "EOF" /\ numeric) => t.type \in {"INTEGER", "FLOAT"}
        /\ (FirstReturn /\ source = <<"3", ".", "1", "4", ".", "5">>) =>
            /\ Len(tokens) = 3
            /\ tokens[1].type = "FLOAT" /\ tokens[1].value = <<"3", ".", "1", "4">>
            /\ tokens[2].type = "FLOAT" /\ tokens[2].value = <<".", "5">>
        /\ (FirstReturn /\ source = <<"3", ".", "1", "4">>) =>
            /\ Len(tokens) = 2
            /\ tokens[1].type = "FLOAT" /\ tokens[1].value = <<"3", ".", "1", "4">>
        /\ (FirstReturn /\ source = <<"3">>) =>
            /\ Len(tokens) = 2
            /\ tokens[1].type = "INTEGER" /\ tokens[1].value = <<"3">>

\* a literal ended by a second '.', which starts the next literal
C7_Witness ==
    /\ FirstReturn
    /\ \E i \in DOMAIN tokens :
          /\ i + 1 \in DOMAIN tokens
          /\ tokens[i].type = "FLOAT"
          /\ tokens[i + 1].type = "FLOAT"
          /\ starts[i + 1] = starts[i] + Len(tokens[i].value)
          /\ tokens[i + 1].value[1] = "."

\* C10: the sequence every scan_tokens call returns, the first or a later
\* one on the same Lexer, holds exactly one EOF token, as its last element.
C10_OneEOFPerCall ==
    Returned =>
        /\ tokens[Len(tokens)].type = "EOF"
        /\ Cardinality({i \in DOMAIN tokens : tokens[i].type = "EOF"}) = 1

----------------------------------------------------------------------------
(* Properties of calculate.                                                *)

\* calculate has ended, by a return or by an exception
Ended == mode = "calc" /\ outcome # "running"

\* C4: calculate returns no value for an ill-formed token sequence: once
\* primary has met an identifier other than sin/cos, sin/cos without a
\* parenthesized expression, a LEFT_PAREN without its RIGHT_PAREN or a token
\* that cannot start a primary, the call does not end in a return.
C4_NoDefaultValue ==
    (mode = "calc" /\ defaulted) => outcome # "returned"

\* C6: pos starts at 0, grows by exactly 1 per consumed token and stays
\* within 0..len(tokens); when a rule needs a token while pos = len(tokens)
\* the call does not end in a return.
C6_CursorDiscipline ==
    mode = "calc" =>
        /\ 0 <= pos /\ pos <= Len(tokens)
        /\ pos = consumed
        /\ starved => outcome # "returned"

\* number of LEFT_PAREN minus number of RIGHT_PAREN among the first n tokens
RECURSIVE OpenParens(_, _)
OpenParens(s, n) ==
    IF n = 0 THEN 0
    ELSE OpenParens(s, n - 1)
         + (IF s[n].type = "LEFT_PAREN" THEN 1
            ELSE IF s[n].type = "RIGHT_PAREN" THEN -1 ELSE 0)

\* the places of the operators of the given types outside all parentheses
TopLevelOps(s, types) ==
    {i \in DOMAIN s : s[i].type \in types /\ OpenParens(s, i) = 0}

Largest(S) == CHOOSE i \in S : \A j \in S : j <= i
Smallest(S) == CHOOSE i \in S : \A j \in S : i <= j

\* the result of an operation as the value of an expression: that of the
\* integers when both operands are integers in range
ValueOp(op, x, y) ==
    IF x.t = "int" /\ y.t = "int" THEN IntOp(op, x.v, y.v)
    ELSE [t |-> "other", v |-> 0, exc |-> ""]

\* the value of a well-formed expression: + and - bind weakest and group to
\* the left, then * / %, grouping to the left, then ^, grouping to the right;
\* parentheses override
RECURSIVE ValueOf(_)
ValueOf(s) ==
    LET additive == TopLevelOps(s, {"PLUS", "MINUS"})
        multiplicative == TopLevelOps(s, {"MULTIPLY", "DIVIDE", "MODULO"})
        powers == TopLevelOps(s, {"POWER"})
        SplitAt(i) == ValueOp(s[i].type, ValueOf(SubSeq(s, 1, i - 1)),
                              ValueOf(SubSeq(s, i + 1, Len(s))))
    IN  IF additive # {} THEN SplitAt(Largest(additive))
        ELSE IF multiplicative # {} THEN SplitAt(Largest(multiplicative))
        ELSE IF powers # {} THEN SplitAt(Smallest(powers))
        ELSE IF s[1].type = "LEFT_PAREN" THEN ValueOf(SubSeq(s, 2, Len(s) - 1))
        ELSE IntVal(ParseInt(s[1].value))

\* C5: on a well-formed sequence of integer literals, parentheses and the
\* operators + - * % ^ whose value is an integer (no zero divisor, no
\* negative exponent, every intermediate value within MaxAbs), calculate
\* returns the value of the expression; 2 ^ 3 ^ 2 = 512, (2 + 3) * 4 = 20,
\* 2 + 3 * 4 = 14, 10 - 4 - 3 = 3.
C5_PrecedenceAndAssociativity ==
    (Ended /\ tokens \in WfInputs \cup WfExamples) =>
        /\ ValueOf(tokens).t = "int" =>
              /\ outcome = "returned"
              /\ ret = ValueOf(tokens)
        /\ tokens = Ex_2pow3pow2 => outcome = "returned" /\ ret = IntVal(512)
        /\ tokens = Ex_paren2plus3times4 => outcome = "returned" /\ ret = IntVal(20)
        /\ tokens = Ex_2plus3times4 => outcome = "returned" /\ ret = IntVal(14)
        /\ tokens = Ex_10minus4minus3 => outcome = "returned" /\ ret = IntVal(3)

\* 2 ^ 3 ^ 2 has been evaluated to 512
C5_Witness ==
    /\ Ended
    /\ tokens = Ex_2pow3pow2
    /\ outcome = "returned"
    /\ ret = IntVal(512)

====
